---------------------------- MODULE Spec2Model ----------------------------
(***************************************************************************)
(* The collection agent of the HomeLab Infrastructure Monitor              *)
(* (src/agent/agent.py): configuration loading, the MetricsCollector with  *)
(* its rate state (last_disk_io, last_net_io, last_time), the              *)
(* HealthChecker, Agent.send_metrics and the Agent.run loop.               *)
(*                                                                         *)
(* Time is the value time.time() returns, in whole ticks; one tick is one  *)
(* second of time.sleep.  Two reads of the clock may return the same tick  *)
(* (the resolution of the clock).                                          *)
(*                                                                         *)
(* Spec and LiveSpec run the agent on a few documents; VariantSpec runs    *)
(* the same process on documents that vary the file's defects, the         *)
(* interval, the api_key and the health checks; CallSpec calls the         *)
(* stateless functions of the collector and the checker on their own,      *)
(* and verify_api_key of the backend (src/backend/app/core/auth.py) on a   *)
(* header and a table of keys; AlertSpec serves concurrent resolve_alert   *)
(* requests of the backend (src/backend/app/api/v1/endpoints/alerts.py).   *)
(***************************************************************************)
EXTENDS Integers, Sequences, FiniteSets, TLC

\* ------------------------------------------------------------------ bounds
MaxTime == 10
MaxStep == 1
MaxCounter == 2
MaxCycles == 3
CounterUnit == 5
MaxContainers == 2
MaxChecks == 3
MaxMounts == 3
MaxRequests == 2

\* ------------------------------------------------------- program constants
MinInterval == 5
MaxInterval == 3600
DefaultInterval == 30

\* Python's None; an optional integer or string v is held as <<v>>.
None == << >>
Some(v) == << v >>

\* ------------------------------------------------------------------ inputs
\* collection.interval_seconds as written in the configuration file
\* (None: the key is absent).
IntervalInputs == {Some(3), Some(5), None}

\* A HealthCheckConfig: fields absent from the document take their defaults
\* (url, host, port: None; expected_status: 200).
HealthCheckConfig(name, type, url, host, port, expected_status) ==
    [ name |-> name, type |-> type, url |-> url, host |-> host, port |-> port,
      expected_status |-> expected_status ]

ProcCheck == HealthCheckConfig("proc", "process", None, None, None, Some(200))
DbCheck == HealthCheckConfig("db", "tcp", None, Some("10.0.0.5"), Some(5432), Some(200))

\* health_checks as written in the configuration file.
HealthCheckLists == { << >>, << ProcCheck, DbCheck >> }

\* Strings the code takes apart are sequences of characters.
Placeholder == << "$", "{", "K", "}" >>
\* os.environ: the variables that are set, with their values.
KeySet == << "K" >> :> << "s", "3" >>
NothingSet == << >>

\* What can be wrong with the configuration file.
ConfigDefects == {"none", "file missing", "malformed yaml", "no server.url"}

\* A configuration file (defect, api_key, interval_seconds, include_docker,
\* disk_mounts, health_checks) and the environment: a key absent from the file
\* is None.
Document(defect, api_key, environ, interval_seconds, include_docker, disk_mounts, health_checks) ==
    [ defect |-> defect, api_key |-> api_key, environ |-> environ,
      interval_seconds |-> interval_seconds, include_docker |-> include_docker,
      disk_mounts |-> disk_mounts, health_checks |-> health_checks ]

\* The documents the agent is started with.
ConfigInputs ==
    { Document(defect, Some(Placeholder), KeySet, interval_seconds, Some(FALSE),
               None, health_checks) :
        defect \in {"none", "file missing"},
        interval_seconds \in IntervalInputs,
        health_checks \in HealthCheckLists }

\* What psutil.disk_io_counters() / psutil.net_io_counters() can return: the
\* cumulative counters of the operating system (they restart from 0 when the
\* OS resets them).  The two counters of a sample are drawn so that between
\* two samples one rises where the other falls.
DiskCounters ==
    { [ read_bytes |-> c * CounterUnit, write_bytes |-> (MaxCounter - c) * CounterUnit ] :
        c \in 0..MaxCounter }
NetCounters ==
    { [ bytes_sent |-> c * CounterUnit, bytes_recv |-> (MaxCounter - c) * CounterUnit ] :
        c \in 0..MaxCounter }

\* What psutil.disk_usage(mount) can do: return the usage of the filesystem,
\* or raise (no such path, no permission).  The root filesystem is always
\* there.
Usage(total, used) ==
    [ kind |-> "usage", total |-> total, used |-> used, free |-> total - used,
      percent |-> (100 * used) \div total ]
DiskUsageOutcomes(mount) ==
    IF mount = "/"
    THEN { Usage(100, 40) }
    ELSE { Usage(100, 40), [ kind |-> "FileNotFoundError" ],
           [ kind |-> "PermissionError" ] }

\* The outcomes the queries of a list of mounts can meet, one for each mount.
RECURSIVE DiskUsageSeqs(_)
DiskUsageSeqs(disk_mounts) ==
    IF disk_mounts = << >>
    THEN { << >> }
    ELSE LET n == Len(disk_mounts)
         IN  { Append(usage, outcome) :
                 usage \in DiskUsageSeqs(SubSeq(disk_mounts, 1, n - 1)),
                 outcome \in DiskUsageOutcomes(disk_mounts[n]) }

\* The counters container.stats reports: the container's and the system's
\* cpu counters now and at the previous reading, the memory in use and the
\* memory limit (None when memory_stats has no 'limit').
Stats(total_usage, pre_total_usage, system_cpu_usage, pre_system_cpu_usage, usage, limit) ==
    [ total_usage |-> total_usage, pre_total_usage |-> pre_total_usage,
      system_cpu_usage |-> system_cpu_usage,
      pre_system_cpu_usage |-> pre_system_cpu_usage,
      memory_usage |-> usage, memory_limit |-> limit ]
\* Readings with a fifth and a third of the cpu, a system counter that stood
\* still or went back, and a limit of zero, below zero or not reported.
StatsReadings ==
    { Stats(1200, 1000, 5000, 4000, 64, Some(128)),
      Stats(1001, 1000, 4003, 4000, 64, Some(192)),
      Stats(1005, 1000, 4000, 4000, 64, Some(0)),
      Stats(1005, 1000, 3000, 4000, 64, Some(-1)),
      Stats(1200, 1000, 5000, 4000, 64, None) }
\* The containers of a listing whose running containers report one of the
\* readings: a container has its name and status, what container.stats
\* returns (an empty dict, None here, when the container is not running or
\* the call raises), and whether reading its stats or attributes raises.
ContainersWith(readings) ==
    [ name : {"c1", "c2", "c3"}, status : {"exited"}, stats : {None},
      raises : BOOLEAN ]
      \cup
    [ name : {"c1", "c2", "c3"}, status : {"running"}, stats : {None},
      raises : {TRUE} ]
      \cup
    [ name : {"c1", "c2", "c3"}, status : {"running"}, stats : readings,
      raises : {FALSE} ]
\* What can be listed: at most MaxContainers containers, each name once.
ContainerListsOf(containers) ==
    { list \in UNION { [ 1..n -> containers ] : n \in 0..MaxContainers } :
        \A i, j \in 1..Len(list) : list[i].name = list[j].name => i = j }
\* The containers of the host the agent loop runs on: the running ones use a
\* fifth of the cpu and half of their memory limit.
Containers == ContainersWith({ Stats(1200, 1000, 5000, 4000, 64, Some(128)) })
ContainerLists == ContainerListsOf(Containers)

\* What the docker library can do when collect_docker_metrics uses it: the
\* import fails, the daemon is unreachable or the listing fails
\* (DockerException), or the containers are listed.  With include_docker
\* false the library is not used.
DockerOutcomesOf(include_docker, lists) ==
    IF include_docker
    THEN { [ kind |-> "ImportError" ], [ kind |-> "DockerException" ] }
           \cup [ kind : {"listing"}, containers : lists ]
    ELSE { [ kind |-> "not used" ] }
DockerOutcomes(include_docker) ==
    DockerOutcomesOf(include_docker, ContainerLists)

\* Final HTTP status codes of the POST, at the edges of each class.
StatusCodes == {101, 200, 299, 300, 304, 400, 599}
\* Outcomes of session.post followed by raise_for_status: a response, a
\* requests.exceptions.RequestException raised by the transport (timeout,
\* connection error), or an exception of another class.
PostOutcomes ==
    [ kind : {"response"}, status : StatusCodes ]
      \cup [ kind : {"Timeout", "ConnectionError", "OtherException"}, status : {0} ]

\* Exit status of the interpreter when a KeyboardInterrupt reaches the top of
\* the stack: 1, or death by SIGINT (130), depending on the interpreter.
UncaughtInterruptStatus == {1, 130}

VARIABLES
    document,      \* the configuration file and the environment the process
                   \* is started with
    call,          \* a collector or checker function called on its own: the
                   \* function, its arguments, what its environment does
    result,        \* what that call returned (None until it returns)
    pc,            \* position of the process: main, the steps of Agent.run, exited
    config,        \* Agent.config (None until load_config returned)
    session,       \* the headers of Agent.session (None until it is built)
    last_disk_io,  \* MetricsCollector.last_disk_io
    last_net_io,   \* MetricsCollector.last_net_io
    last_time,     \* MetricsCollector.last_time
    clock,         \* the latest value read from time.time()
    snapshot,      \* the dict collect_all is building
    metrics,       \* Agent.run's local `metrics` (None while its value is dead:
                   \* from the end of an iteration until collect_all returns)
    cycle,         \* number of the current iteration of the while loop
    metricsCycle,  \* the iteration in which `metrics` was assigned (0 when None)
    wire,          \* the POST of the current iteration, None if none was made
    posts,         \* number of POST attempts made in the current iteration
    failedBefore,  \* send_metrics returned False in the previous iteration
    logged,        \* the latest log message
    interrupted,   \* a KeyboardInterrupt was raised
    exitStatus,    \* exit status of the process (None while it runs)
    diskSample,    \* the latest disk sample taken: counters and time.time()
    netSample,     \* the latest network sample taken: counters and time.time()
    alerts,        \* the backend's alerts table: the row of each alert id
    requests,      \* the resolve_alert requests the backend is serving: the
                   \* id asked for, the position of the handler, the Alert
                   \* object of its session, its response
    utc            \* the latest value read from datetime.utcnow()

vars == << document, call, result, pc, config, session, last_disk_io, last_net_io, last_time, clock, snapshot,
           metrics, cycle, metricsCycle, wire, posts, failedBefore, logged,
           interrupted, exitStatus, diskSample, netSample, alerts, requests,
           utc >>

collectorVars == << last_disk_io, last_net_io, last_time >>
sampleVars == << diskSample, netSample >>
postVars == << wire, posts >>
\* What no step of collect_all or check_all touches.
callVars == << call, result >>
\* The backend's state, which no step of the agent touches.
backendVars == << alerts, requests, utc >>
outerVars == << document, backendVars, callVars, config, session, cycle, postVars, failedBefore,
               interrupted, exitStatus >>

\* ----------------------------------------------------------- pure functions

\* int(a / b) of Python for b > 0: the quotient truncated toward zero.
TruncDiv(a, b) == IF a >= 0 THEN a \div b ELSE -((-a) \div b)

\* str.startswith and str.endswith.
startswith(str, prefix) ==
    Len(str) >= Len(prefix) /\ SubSeq(str, 1, Len(prefix)) = prefix
endswith(str, suffix) ==
    Len(str) >= Len(suffix)
      /\ SubSeq(str, Len(str) - Len(suffix) + 1, Len(str)) = suffix

\* getenv with the reference left in place when the variable is not set.
getenv_KeepsReference(environ, key, default) ==
    IF key \in DOMAIN environ
    THEN environ[key]
    ELSE << "$", "{" >> \o key \o << "}" >>

\* os.getenv(key, default).
getenv(environ, key, default) ==
    IF key \in DOMAIN environ THEN environ[key] ELSE default

\* load_config with the lower bound of interval_seconds exclusive (gt=5).
load_config_ExclusiveMinimum(doc) ==
    IF doc.defect = "file missing"
    THEN [ exit |-> 1, logged |-> "Configuration file not found" ]
    ELSE IF doc.defect = "malformed yaml"
    THEN [ exit |-> 1, logged |-> "Failed to load configuration" ]
    ELSE LET api_key ==
                 IF doc.api_key # None
                      /\ startswith(doc.api_key[1], << "$", "{" >>)
                      /\ endswith(doc.api_key[1], << "}" >>)
                 THEN LET env_var == SubSeq(doc.api_key[1], 3,
                                            Len(doc.api_key[1]) - 1)
                      IN  Some(getenv(doc.environ, env_var, << >>))
                 ELSE doc.api_key
             interval_seconds ==
                 IF doc.interval_seconds = None
                 THEN DefaultInterval
                 ELSE doc.interval_seconds[1]
             include_docker ==
                 IF doc.include_docker = None THEN TRUE ELSE doc.include_docker[1]
             disk_mounts ==
                 IF doc.disk_mounts = None THEN << "/" >> ELSE doc.disk_mounts[1]
         IN  IF \/ doc.defect = "no server.url"
                \/ api_key = None
                \/ interval_seconds <= MinInterval
                \/ interval_seconds > MaxInterval
             THEN [ exit |-> 1, logged |-> "Configuration validation error" ]
             ELSE [ api_key |-> api_key[1],
                    interval_seconds |-> interval_seconds,
                    include_docker |-> include_docker,
                    disk_mounts |-> disk_mounts,
                    health_checks |-> doc.health_checks ]

\* Agent.load_config on a document: the AgentConfig it returns, or the error
\* it logs before sys.exit(1).
load_config(doc) ==
    IF doc.defect = "file missing"
    THEN [ exit |-> 1, logged |-> "Configuration file not found" ]
    ELSE IF doc.defect = "malformed yaml"
    THEN [ exit |-> 1, logged |-> "Failed to load configuration" ]
    ELSE LET api_key ==
                 IF doc.api_key # None
                      /\ startswith(doc.api_key[1], << "$", "{" >>)
                      /\ endswith(doc.api_key[1], << "}" >>)
                 THEN LET env_var == SubSeq(doc.api_key[1], 3,
                                            Len(doc.api_key[1]) - 1)
                      IN  Some(getenv(doc.environ, env_var, << >>))
                 ELSE doc.api_key
             interval_seconds ==
                 IF doc.interval_seconds = None
                 THEN DefaultInterval
                 ELSE doc.interval_seconds[1]
             include_docker ==
                 IF doc.include_docker = None THEN TRUE ELSE doc.include_docker[1]
             disk_mounts ==
                 IF doc.disk_mounts = None THEN << "/" >> ELSE doc.disk_mounts[1]
         IN  IF \/ doc.defect = "no server.url"
                \/ api_key = None
                \/ interval_seconds < MinInterval
                \/ interval_seconds > MaxInterval
             THEN [ exit |-> 1, logged |-> "Configuration validation error" ]
             ELSE [ api_key |-> api_key[1],
                    interval_seconds |-> interval_seconds,
                    include_docker |-> include_docker,
                    disk_mounts |-> disk_mounts,
                    health_checks |-> doc.health_checks ]

\* MetricsCollector.collect_disk_io_metrics on the collector state (ldi, lt),
\* with current_io and current_time as read: the new state, whether an
\* exception left the call (ZeroDivisionError), and the returned dict.
collect_disk_io_metrics(ldi, lt, current_io, current_time) ==
    IF ldi = None \/ lt = None
    THEN [ raised |-> FALSE, last_disk_io |-> current_io,
           last_time |-> Some(current_time),
           ret |-> [ read_bytes |-> 0, write_bytes |-> 0,
                     read_bytes_per_sec |-> 0, write_bytes_per_sec |-> 0 ] ]
    ELSE LET time_delta == current_time - lt[1]
         IN  IF time_delta = 0
             THEN [ raised |-> TRUE, last_disk_io |-> ldi, last_time |-> lt,
                    ret |-> None ]
             ELSE [ raised |-> FALSE, last_disk_io |-> current_io,
                    last_time |-> Some(current_time),
                    ret |-> [ read_bytes |-> current_io.read_bytes,
                              write_bytes |-> current_io.write_bytes,
                              read_bytes_per_sec |->
                                  TruncDiv(current_io.read_bytes - ldi.read_bytes,
                                           time_delta),
                              write_bytes_per_sec |->
                                  TruncDiv(current_io.write_bytes - ldi.write_bytes,
                                           time_delta) ] ]

\* MetricsCollector.collect_network_metrics, likewise on (lni, lt).
collect_network_metrics(lni, lt, current_net, current_time) ==
    IF lni = None \/ lt = None
    THEN [ raised |-> FALSE, last_net_io |-> current_net,
           last_time |-> Some(current_time),
           ret |-> [ bytes_sent |-> 0, bytes_recv |-> 0,
                     bytes_sent_per_sec |-> 0, bytes_recv_per_sec |-> 0 ] ]
    ELSE LET time_delta == current_time - lt[1]
         IN  IF time_delta = 0
             THEN [ raised |-> TRUE, last_net_io |-> lni, last_time |-> lt,
                    ret |-> None ]
             ELSE [ raised |-> FALSE, last_net_io |-> current_net,
                    last_time |-> lt,
                    ret |-> [ bytes_sent |-> current_net.bytes_sent,
                              bytes_recv |-> current_net.bytes_recv,
                              bytes_sent_per_sec |->
                                  TruncDiv(current_net.bytes_sent - lni.bytes_sent,
                                           time_delta),
                              bytes_recv_per_sec |->
                                  TruncDiv(current_net.bytes_recv - lni.bytes_recv,
                                           time_delta) ] ]

\* collect_disk_metrics with the try around the loop: the first query that
\* raises ends the collection.
RECURSIVE collect_disk_metrics_StopsAtFailure(_, _)
collect_disk_metrics_StopsAtFailure(disk_mounts, usage) ==
    IF disk_mounts = << >> \/ usage[1].kind # "usage"
    THEN << >>
    ELSE << [ mount |-> disk_mounts[1],
              total |-> usage[1].total,
              used |-> usage[1].used,
              free |-> usage[1].free,
              percent |-> usage[1].percent ] >>
           \o collect_disk_metrics_StopsAtFailure(Tail(disk_mounts), Tail(usage))

\* MetricsCollector.collect_disk_metrics: the mounts are queried in order,
\* usage[i] being what psutil.disk_usage(disk_mounts[i]) does; a mount whose
\* query raises is logged and left out.
RECURSIVE collect_disk_metrics(_, _)
collect_disk_metrics(disk_mounts, usage) ==
    IF disk_mounts = << >>
    THEN << >>
    ELSE LET n == Len(disk_mounts)
             mount == disk_mounts[n]
             disks == collect_disk_metrics(SubSeq(disk_mounts, 1, n - 1),
                                           SubSeq(usage, 1, n - 1))
         IN  IF usage[n].kind = "usage"
             THEN Append(disks, [ mount |-> mount,
                                  total |-> usage[n].total,
                                  used |-> usage[n].used,
                                  free |-> usage[n].free,
                                  percent |-> usage[n].percent ])
             ELSE disks

\* round(num / den * 100.0, 2) for den > 0, as the number of hundredths of
\* the rounded value: the nearest hundredth, the even one of two equally near.
round2(num, den) ==
    LET scaled == num * 100 * 100
        q == scaled \div den
        r == scaled - q * den
    IN  IF 2 * r < den THEN q
        ELSE IF 2 * r > den THEN q + 1
        ELSE IF q % 2 = 0 THEN q ELSE q + 1

\* cpu_percent guarded by system_delta != 0 instead of system_delta > 0.
cpu_percent_NonZeroGuard(stats) ==
    LET cpu_delta == stats.total_usage - stats.pre_total_usage
        system_delta == stats.system_cpu_usage - stats.pre_system_cpu_usage
    IN  IF system_delta > 0 THEN round2(cpu_delta, system_delta)
        ELSE IF system_delta < 0 THEN 0 - round2(cpu_delta, 0 - system_delta)
        ELSE 0

\* The cpu_percent a running container's entry reports, in hundredths.
cpu_percent(stats) ==
    LET cpu_delta == stats.total_usage - stats.pre_total_usage
        system_delta == stats.system_cpu_usage - stats.pre_system_cpu_usage
    IN  IF system_delta > 0 THEN round2(cpu_delta, system_delta) ELSE 0

\* memory_stats.get('limit', 1).
mem_limit(stats) ==
    IF stats.memory_limit = None THEN 1 ELSE stats.memory_limit[1]

\* The memory_percent a running container's entry reports, in hundredths.
mem_percent(stats) ==
    LET mem_usage == stats.memory_usage
    IN  IF mem_limit(stats) > 0 THEN round2(mem_usage, mem_limit(stats)) ELSE 0

\* What container_info.update adds for a running container with stats.
running_info(stats) ==
    [ cpu_percent |-> cpu_percent(stats),
      memory_usage |-> stats.memory_usage,
      memory_percent |-> mem_percent(stats) ]

\* container_entries without the inner try: the first container whose
\* reading raises ends the loop.
RECURSIVE container_entries_StopsAtFailure(_)
container_entries_StopsAtFailure(listed) ==
    IF listed = << >> \/ listed[1].raises
    THEN << >>
    ELSE LET container == listed[1]
             container_info == [ name |-> container.name,
                                 status |-> container.status ]
         IN  << IF container.status = "running" /\ container.stats # None
                THEN running_info(container.stats) @@ container_info
                ELSE container_info >>
               \o container_entries_StopsAtFailure(Tail(listed))

\* The loop over the listed containers in collect_docker_metrics: the entry
\* of a container is appended unless reading it raises.
RECURSIVE container_entries(_)
container_entries(listed) ==
    IF listed = << >>
    THEN << >>
    ELSE LET n == Len(listed)
             container == listed[n]
             containers == container_entries(SubSeq(listed, 1, n - 1))
             container_info == [ name |-> container.name,
                                 status |-> container.status ]
         IN  IF container.raises
             THEN containers
             ELSE IF container.status = "running" /\ container.stats # None
                  THEN Append(containers,
                              running_info(container.stats) @@ container_info)
                  ELSE Append(containers, container_info)

\* MetricsCollector.collect_docker_metrics on what the docker library does.
collect_docker_metrics(include_docker, outcome) ==
    IF ~include_docker
    THEN << >>
    ELSE IF outcome.kind = "listing"
         THEN container_entries(outcome.containers)
         ELSE << >>

\* raise HTTPException(status_code, detail): the response of the request.
HTTPException(status_code, detail) ==
    [ status_code |-> status_code, detail |-> detail ]

\* The value of the Authorization header for an api_key.
Bearer(api_key) == << "B", "e", "a", "r", "e", "r", " " >> \o api_key

\* str.replace(old, new) for a non-empty old: every occurrence of old, from
\* the left and not overlapping, becomes new.
RECURSIVE replace(_, _, _)
replace(str, old, new) ==
    IF Len(str) < Len(old)
    THEN str
    ELSE IF startswith(str, old)
         THEN new \o replace(SubSeq(str, Len(old) + 1, Len(str)), old, new)
         ELSE << str[1] >> \o replace(Tail(str), old, new)

\* settings.API_KEY_SALT.
API_KEY_SALT == << "s", "a", "l", "t" >>
\* hash_api_key: the SHA-256 digest of the key followed by the salt, held as
\* the text that was digested (two texts have one digest only when equal).
hash_api_key(api_key) == [ sha256 |-> api_key \o API_KEY_SALT ]

\* verify_api_key on a request's Authorization header (None when the request
\* has none), the api_keys table and the value of datetime.utcnow(): what it
\* raises or returns, and the table it leaves.
verify_api_key(authorization, api_keys, now) ==
    IF \/ authorization = None
       \/ authorization[1] = << >>
       \/ ~startswith(authorization[1], Bearer(<< >>))
    THEN [ raised |-> HTTPException(401,
                        "Missing or invalid authorization header"),
           api_keys |-> api_keys ]
    ELSE LET api_key == replace(authorization[1], Bearer(<< >>), << >>)
             api_key_hash == hash_api_key(api_key)
             rows == { k \in DOMAIN api_keys :
                         /\ api_keys[k].key_hash = api_key_hash
                         /\ api_keys[k].revoked = "false" }
         IN  IF rows = {}
             THEN [ raised |-> HTTPException(401, "Invalid or revoked API key"),
                    api_keys |-> api_keys ]
             ELSE IF Cardinality(rows) > 1
             THEN [ raised |-> [ exception |-> "MultipleResultsFound" ],
                    api_keys |-> api_keys ]
             ELSE LET k == CHOOSE row \in rows : TRUE
                      committed ==
                        [ api_keys EXCEPT ![k].last_used_at = Some(now) ]
                  IN  [ returned |-> committed[k], api_keys |-> committed ]

\* The text of a result's message with the values formatted into it.
Message(text, args) == [ text |-> text, args |-> args ]

\* What requests.get(config.url, timeout=5) can do: return a response (its
\* status code, and the time it took in ms), or raise.  Without a url it
\* raises MissingSchema.
HttpProbeOutcomes(check) ==
    IF check.url = None
    THEN { [ kind |-> "MissingSchema" ] }
    ELSE [ kind : {"response"}, status_code : {200, 204, 404},
           response_time_ms : {12} ]
           \cup { [ kind |-> "Timeout" ], [ kind |-> "ConnectionError" ] }

\* Hosts given as an address: nothing is resolved to connect to them.
Addresses == {"10.0.0.5"}

\* What sock.connect_ex((config.host, config.port)) can do: return 0, return
\* an errno (111 connection refused, 11 timed out), or raise: TypeError when
\* host or port is None, gaierror when the host is a name that does not
\* resolve.
TcpProbeOutcomes(check) ==
    IF check.host = None \/ check.port = None
    THEN { [ kind |-> "TypeError" ] }
    ELSE [ kind : {"connect_ex"}, result : {0, 11, 111} ]
           \cup IF check.host[1] \in Addresses
                THEN {}
                ELSE { [ kind |-> "gaierror" ] }

\* The outcomes of the probe check_all makes for a check (none for a type it
\* does not probe).
ProbeOutcomes(check) ==
    CASE check.type = "http" -> HttpProbeOutcomes(check)
      [] check.type = "tcp" -> TcpProbeOutcomes(check)
      [] OTHER -> { [ kind |-> "not probed" ] }

\* check_http without its except clause: the exception of the GET leaves it.
check_http_Propagates(check, outcome) ==
    IF outcome.kind = "response"
    THEN LET is_healthy == Some(outcome.status_code) = check.expected_status
         IN  [ name |-> check.name,
               type |-> "http",
               healthy |-> is_healthy,
               status_code |-> outcome.status_code,
               response_time_ms |-> outcome.response_time_ms,
               message |-> IF is_healthy
                           THEN Message("OK", << >>)
                           ELSE Message("Expected {}, got {}",
                                        << check.expected_status,
                                           Some(outcome.status_code) >>) ]
    ELSE [ name |-> check.name, type |-> "http", raised |-> outcome.kind ]

\* check_http taking every status below 400 for healthy.
check_http_AnySuccessIsHealthy(check, outcome) ==
    IF outcome.kind = "response"
    THEN LET is_healthy == outcome.status_code < 400
         IN  [ name |-> check.name,
               type |-> "http",
               healthy |-> is_healthy,
               status_code |-> outcome.status_code,
               response_time_ms |-> outcome.response_time_ms,
               message |-> IF is_healthy
                           THEN Message("OK", << >>)
                           ELSE Message("Expected {}, got {}",
                                        << check.expected_status,
                                           Some(outcome.status_code) >>) ]
    ELSE [ name |-> check.name,
           type |-> "http",
           healthy |-> FALSE,
           message |-> Message(outcome.kind, << >>) ]

\* HealthChecker.check_http on the outcome of its GET (check is its
\* parameter `config`).
check_http(check, outcome) ==
    IF outcome.kind = "response"
    THEN LET is_healthy == Some(outcome.status_code) = check.expected_status
         IN  [ name |-> check.name,
               type |-> "http",
               healthy |-> is_healthy,
               status_code |-> outcome.status_code,
               response_time_ms |-> outcome.response_time_ms,
               message |-> IF is_healthy
                           THEN Message("OK", << >>)
                           ELSE Message("Expected {}, got {}",
                                        << check.expected_status,
                                           Some(outcome.status_code) >>) ]
    ELSE [ name |-> check.name,
           type |-> "http",
           healthy |-> FALSE,
           message |-> Message(outcome.kind, << >>) ]

\* HealthChecker.check_tcp on the outcome of its connect_ex.
check_tcp(check, outcome) ==
    IF outcome.kind = "connect_ex"
    THEN LET is_healthy == outcome.result = 0
         IN  [ name |-> check.name,
               type |-> "tcp",
               healthy |-> is_healthy,
               host |-> check.host,
               port |-> check.port,
               message |-> IF is_healthy
                           THEN Message("Port is open", << >>)
                           ELSE Message("Port is closed", << >>) ]
    ELSE [ name |-> check.name,
           type |-> "tcp",
           healthy |-> FALSE,
           message |-> Message(outcome.kind, << >>) ]

\* check_all with each result put in front of the earlier ones.
RECURSIVE check_all_NewestFirst(_, _)
check_all_NewestFirst(health_checks, outcomes) ==
    IF health_checks = << >>
    THEN << >>
    ELSE LET n == Len(health_checks)
             check == health_checks[n]
             results == check_all_NewestFirst(SubSeq(health_checks, 1, n - 1),
                                              SubSeq(outcomes, 1, n - 1))
         IN  IF check.type = "http"
             THEN << check_http(check, outcomes[n]) >> \o results
             ELSE IF check.type = "tcp"
                  THEN << check_tcp(check, outcomes[n]) >> \o results
                  ELSE results

\* HealthChecker.check_all: the checks are probed in order, outcomes[i] being
\* what the probe of health_checks[i] meets; a check that is neither http nor
\* tcp is passed over.
RECURSIVE check_all(_, _)
check_all(health_checks, outcomes) ==
    IF health_checks = << >>
    THEN << >>
    ELSE LET n == Len(health_checks)
             check == health_checks[n]
             results == check_all(SubSeq(health_checks, 1, n - 1),
                                  SubSeq(outcomes, 1, n - 1))
         IN  IF check.type = "http"
             THEN Append(results, check_http(check, outcomes[n]))
             ELSE IF check.type = "tcp"
                  THEN Append(results, check_tcp(check, outcomes[n]))
                  ELSE results

\* The outcomes the probes of a list of checks can meet, one for each check.
RECURSIVE ProbeOutcomeSeqs(_)
ProbeOutcomeSeqs(health_checks) ==
    IF health_checks = << >>
    THEN { << >> }
    ELSE LET n == Len(health_checks)
         IN  { Append(outcomes, outcome) :
                 outcomes \in ProbeOutcomeSeqs(SubSeq(health_checks, 1, n - 1)),
                 outcome \in ProbeOutcomes(health_checks[n]) }

\* response.raise_for_status() raises HTTPError, a RequestException.
RaisesForStatus(status) == status >= 400 /\ status < 600

\* Agent.send_metrics on the outcome of its POST: "True", "False", or
\* "raised" when an exception leaves the call.
send_metrics(outcome) ==
    IF outcome.kind = "response"
    THEN IF RaisesForStatus(outcome.status) THEN "False" ELSE "True"
    ELSE IF outcome.kind \in {"Timeout", "ConnectionError"}
         THEN "False"
         ELSE "raised"

\* --------------------------------------------------------------- the process

\* The process before main() has built its Agent.
InitProcess ==
    /\ pc = "main"
    /\ config = None
    /\ session = None
    /\ last_disk_io = None
    /\ last_net_io = None
    /\ last_time = None
    /\ clock = 0
    /\ snapshot = None
    /\ metrics = None
    /\ cycle = 0
    /\ metricsCycle = 0
    /\ wire = None
    /\ posts = 0
    /\ failedBefore = FALSE
    /\ logged = "none"
    /\ interrupted = FALSE
    /\ exitStatus = None
    /\ diskSample = None
    /\ netSample = None

\* No backend is part of the run.
NoBackend ==
    /\ alerts = None
    /\ requests = None
    /\ utc = 0

\* The agent is started with one of the documents; no function is called on
\* its own.
Init ==
    /\ document \in ConfigInputs
    /\ call = None
    /\ result = None
    /\ NoBackend
    /\ InitProcess

\* The process ends: its objects are gone.
ProcessEnds ==
    /\ pc' = "exited"
    /\ config' = None
    /\ session' = None
    /\ last_disk_io' = None
    /\ last_net_io' = None
    /\ last_time' = None
    /\ snapshot' = None
    /\ metrics' = None
    /\ metricsCycle' = 0
    /\ wire' = None
    /\ diskSample' = None
    /\ netSample' = None

\* The positions inside the try block of Agent.run.
TryBody == {"collect", "disk_io", "network", "docker", "check", "send", "sleep"}

\* The exceptions the steps of a cycle raise, and what the loop logs for them.
ExceptionKinds == {"psutil.Error", "ZeroDivisionError", "OtherException"}
LoopErrorMessages == { "Error in agent loop: " \o e : e \in ExceptionKinds }

\* LoopError with the exception logged and raised again.
LoopError_Propagates(e) ==
    /\ pc' = "exited"
    /\ logged' = "Error in agent loop: " \o e

\* The `except Exception` clause of Agent.run: log, then sleep.
LoopError(e) ==
    /\ pc' = "errsleep"
    /\ logged' = "Error in agent loop: " \o e

\* main(): Agent(config_path) loads the configuration, builds the collector
\* (no previous sample) and the session, and run() enters its loop.
Main ==
    /\ pc = "main"
    /\ LET c == load_config(document)
       IN  IF "exit" \in DOMAIN c
           THEN /\ ProcessEnds
                /\ exitStatus' = Some(c.exit)
                /\ logged' = c.logged
                /\ UNCHANGED cycle
           ELSE /\ pc' = "collect"
                /\ config' = c
                /\ session' = [ Authorization |-> Bearer(c.api_key) ]
                /\ cycle' = 1
                /\ logged' = "Starting agent loop"
                /\ UNCHANGED << exitStatus, collectorVars, snapshot, metrics,
                                metricsCycle, wire, sampleVars >>
    /\ UNCHANGED << document, backendVars, callVars, clock, posts, failedBefore, interrupted >>

\* collect_system_info at time now, on a host booted at time 0 whose psutil
\* has no hostname().
collect_system_info(now) ==
    [ hostname |-> "unknown", boot_time |-> 0, uptime_seconds |-> now - 0 ]

\* collect_cpu_metrics and collect_memory_metrics on a host with one core and
\* eight units of memory, half of it in use, and no swap.
collect_cpu_metrics == [ percent |-> << 25 >>, load_avg |-> << 0, 0, 0 >>, count |-> 1 ]
collect_memory_metrics ==
    [ total |-> 8, used |-> 4, available |-> 4, percent |-> 50,
      swap_total |-> 0, swap_used |-> 0, swap_percent |-> 0 ]

\* The dict collect_all returns, from the values its calls returned.
collect_all(values, containers) ==
    [ timestamp |-> values.timestamp,
      system |-> values.system,
      metrics |-> [ cpu |-> values.cpu, memory |-> values.memory,
                    disks |-> values.disks, disk_io |-> values.disk_io,
                    network |-> values.network ],
      containers |-> containers ]

\* collect_all, up to the disk I/O: the timestamp, collect_system_info,
\* collect_cpu_metrics, collect_memory_metrics, collect_disk_metrics.  An
\* exception of a psutil call leaves collect_all.
CollectBegin ==
    /\ pc = "collect"
    /\ \E ok \in BOOLEAN, usage \in DiskUsageSeqs(config.disk_mounts) :
         IF ok
         THEN /\ pc' = "disk_io"
              /\ snapshot' =
                    [ timestamp |-> clock,
                      system |-> collect_system_info(clock),
                      cpu |-> collect_cpu_metrics,
                      memory |-> collect_memory_metrics,
                      disks |-> collect_disk_metrics(config.disk_mounts, usage) ]
              /\ UNCHANGED logged
         ELSE /\ LoopError("psutil.Error")
              /\ UNCHANGED snapshot
    /\ UNCHANGED << outerVars, collectorVars, clock, metrics, metricsCycle,
                    sampleVars >>

\* collect_disk_io_metrics: psutil.disk_io_counters(), time.time(), the rate.
CollectDiskIo ==
    /\ pc = "disk_io"
    /\ \E current_io \in DiskCounters, d \in 0..MaxStep :
         LET current_time == clock + d
             r == collect_disk_io_metrics(last_disk_io, last_time,
                                          current_io, current_time)
         IN  /\ current_time <= MaxTime
             /\ clock' = current_time
             /\ diskSample' = [ io |-> current_io, t |-> current_time ]
             /\ last_disk_io' = r.last_disk_io
             /\ last_time' = r.last_time
             /\ IF r.raised
                THEN /\ LoopError("ZeroDivisionError")
                     /\ snapshot' = None
                ELSE /\ pc' = "network"
                     /\ snapshot' = snapshot @@ [ disk_io |-> r.ret ]
                     /\ UNCHANGED logged
    /\ UNCHANGED << outerVars, last_net_io, metrics, metricsCycle, netSample >>

\* psutil.disk_io_counters() raises: nothing was sampled, and the dict that
\* collect_all was building is dropped.
CollectDiskIoFails ==
    /\ pc = "disk_io"
    /\ LoopError("psutil.Error")
    /\ snapshot' = None
    /\ UNCHANGED << outerVars, collectorVars, clock, metrics, metricsCycle,
                    sampleVars >>

\* collect_network_metrics: psutil.net_io_counters(), time.time(), the rate.
CollectNetwork ==
    /\ pc = "network"
    /\ \E current_net \in NetCounters, d \in 0..MaxStep :
         LET current_time == clock + d
             r == collect_network_metrics(last_net_io, last_time,
                                          current_net, current_time)
         IN  /\ current_time <= MaxTime
             /\ clock' = current_time
             /\ netSample' = [ io |-> current_net, t |-> current_time ]
             /\ last_net_io' = r.last_net_io
             /\ last_time' = r.last_time
             /\ IF r.raised
                THEN /\ LoopError("ZeroDivisionError")
                     /\ snapshot' = None
                ELSE /\ pc' = "docker"
                     /\ snapshot' = snapshot @@ [ network |-> r.ret ]
                     /\ UNCHANGED logged
    /\ UNCHANGED << outerVars, last_disk_io, metrics, metricsCycle, diskSample >>

\* CollectNetworkFails with collect_all catching the exception and returning
\* what it has: the snapshot goes on to the POST without the network category.
CollectNetworkFails_SendsPartial ==
    /\ pc = "network"
    /\ metrics' = [ timestamp |-> snapshot.timestamp,
                    system |-> snapshot.system,
                    metrics |-> [ cpu |-> snapshot.cpu,
                                  memory |-> snapshot.memory,
                                  disks |-> snapshot.disks,
                                  disk_io |-> snapshot.disk_io ],
                    containers |-> << >> ]
    /\ metricsCycle' = cycle
    /\ snapshot' = None
    /\ pc' = "send"
    /\ logged' = "Error in agent loop: psutil.Error"
    /\ UNCHANGED << outerVars, collectorVars, clock, sampleVars >>

\* psutil.net_io_counters() raises: nothing was sampled.
CollectNetworkFails ==
    /\ pc = "network"
    /\ LoopError("psutil.Error")
    /\ snapshot' = None
    /\ UNCHANGED << outerVars, collectorVars, clock, metrics, metricsCycle,
                    sampleVars >>

\* collect_docker_metrics, then collect_all returns its dict to run().
CollectDocker ==
    /\ pc = "docker"
    /\ \E outcome \in DockerOutcomes(config.include_docker) :
         LET containers == collect_docker_metrics(config.include_docker, outcome)
         IN  metrics' = collect_all(snapshot, containers)
    /\ metricsCycle' = cycle
    /\ snapshot' = None
    /\ pc' = "check"
    /\ UNCHANGED << outerVars, collectorVars, clock, logged, sampleVars >>

\* HealthChecker.check_all(self.config.health_checks) and the attachment of
\* its results when there are any.
RunHealthChecks ==
    /\ pc = "check"
    /\ \E outcomes \in ProbeOutcomeSeqs(config.health_checks) :
         LET health_checks == check_all(config.health_checks, outcomes)
         IN  metrics' = IF health_checks # << >>
                        THEN [ health_checks |-> health_checks ] @@ metrics
                        ELSE metrics
    /\ pc' = "send"
    /\ UNCHANGED << outerVars, collectorVars, clock, snapshot, metricsCycle,
                    logged, sampleVars >>

\* SendMetrics with run() leaving its loop when send_metrics returns False.
SendMetrics_StopsOnFailure ==
    /\ pc = "send"
    /\ \E outcome \in PostOutcomes :
         LET returned == send_metrics(outcome)
         IN  /\ wire' = [ cycle |-> cycle, snapshotCycle |-> metricsCycle,
                          Authorization |-> session.Authorization,
                          body |-> metrics, outcome |-> outcome,
                          returned |-> returned ]
             /\ posts' = posts + 1
             /\ CASE returned = "raised" ->
                       /\ LoopError("OtherException")
                       /\ UNCHANGED exitStatus
                  [] returned = "False" ->
                       /\ pc' = "exited"
                       /\ logged' = "Failed to send metrics"
                       /\ exitStatus' = Some(0)
                  [] OTHER ->
                       /\ pc' = "sleep"
                       /\ logged' = "Metrics sent successfully"
                       /\ UNCHANGED exitStatus
    /\ UNCHANGED << config, session, document, backendVars, callVars, collectorVars, clock, snapshot, metrics, cycle,
                    metricsCycle, failedBefore, interrupted, sampleVars >>

\* SendMetrics with a failed POST tried once more in the same iteration.
SendMetrics_RetriesOnFailure ==
    /\ pc = "send"
    /\ \E outcome \in PostOutcomes :
         LET returned == send_metrics(outcome)
         IN  /\ wire' = [ cycle |-> cycle, snapshotCycle |-> metricsCycle,
                          Authorization |-> session.Authorization,
                          body |-> metrics, outcome |-> outcome,
                          returned |-> returned ]
             /\ posts' = posts + 1
             /\ CASE returned = "raised" -> LoopError("OtherException")
                  [] returned = "False" /\ posts = 0 ->
                       /\ pc' = "send"
                       /\ logged' = "Failed to send metrics"
                  [] OTHER ->
                       /\ pc' = "sleep"
                       /\ logged' = IF returned = "True"
                                    THEN "Metrics sent successfully"
                                    ELSE "Failed to send metrics"
    /\ UNCHANGED << config, session, document, backendVars, callVars, collectorVars, clock, snapshot, metrics, cycle,
                    metricsCycle, failedBefore, interrupted, exitStatus, sampleVars >>

\* self.send_metrics(metrics): one POST of `metrics`; its result is logged and
\* dropped by run().
SendMetrics ==
    /\ pc = "send"
    /\ \E outcome \in PostOutcomes :
         LET returned == send_metrics(outcome)
         IN  /\ wire' = [ cycle |-> cycle, snapshotCycle |-> metricsCycle,
                          Authorization |-> session.Authorization,
                          body |-> metrics, outcome |-> outcome,
                          returned |-> returned ]
             /\ posts' = posts + 1
             /\ IF returned = "raised"
                THEN LoopError("OtherException")
                ELSE /\ pc' = "sleep"
                     /\ logged' = IF returned = "True"
                                  THEN "Metrics sent successfully"
                                  ELSE "Failed to send metrics"
    /\ UNCHANGED << config, session, document, backendVars, callVars, collectorVars, clock, snapshot, metrics, cycle,
                    metricsCycle, failedBefore, interrupted, exitStatus, sampleVars >>

\* The next iteration of `while True`.
NextCycle ==
    /\ cycle < MaxCycles
    /\ clock + config.interval_seconds <= MaxTime
    /\ clock' = clock + config.interval_seconds
    /\ cycle' = cycle + 1
    /\ posts' = 0
    /\ failedBefore' = (wire # None /\ wire.returned = "False")
    /\ wire' = None
    /\ metrics' = None
    /\ metricsCycle' = 0
    /\ pc' = "collect"

\* time.sleep(interval_seconds) at the end of the try block.
Sleep ==
    /\ pc = "sleep"
    /\ NextCycle
    /\ UNCHANGED << config, session, document, backendVars, callVars, collectorVars, snapshot, logged, interrupted,
                    exitStatus, sampleVars >>

\* ErrorSleep without the sleep: the next iteration starts at once.
ErrorSleep_RetriesAtOnce ==
    /\ pc = "errsleep"
    /\ cycle < MaxCycles
    /\ cycle' = cycle + 1
    /\ posts' = 0
    /\ failedBefore' = (wire # None /\ wire.returned = "False")
    /\ wire' = None
    /\ metrics' = None
    /\ metricsCycle' = 0
    /\ pc' = "collect"
    /\ UNCHANGED << config, session, document, backendVars, callVars, collectorVars, clock, snapshot, logged, interrupted,
                    exitStatus, sampleVars >>

\* time.sleep(interval_seconds) of the `except Exception` clause.
ErrorSleep ==
    /\ pc = "errsleep"
    /\ NextCycle
    /\ UNCHANGED << config, session, document, backendVars, callVars, collectorVars, snapshot, logged, interrupted,
                    exitStatus, sampleVars >>

\* The operator's Ctrl-C: KeyboardInterrupt is raised where the process is.
\* Inside the try block `except KeyboardInterrupt` logs and breaks, run() and
\* main() return; anywhere else nothing catches it.
KeyboardInterrupt ==
    /\ pc # "exited"
    /\ interrupted' = TRUE
    /\ ProcessEnds
    /\ IF pc \in TryBody
       THEN /\ logged' = "Agent stopped by user"
            /\ exitStatus' = Some(0)
       ELSE /\ \E st \in UncaughtInterruptStatus : exitStatus' = Some(st)
            /\ UNCHANGED logged
    /\ UNCHANGED << document, backendVars, callVars, clock, cycle, posts, failedBefore >>

\* The steps the process takes by itself.
Step ==
    \/ Main
    \/ CollectBegin
    \/ CollectDiskIo
    \/ CollectDiskIoFails
    \/ CollectNetwork
    \/ CollectNetworkFails
    \/ CollectDocker
    \/ RunHealthChecks
    \/ SendMetrics
    \/ Sleep
    \/ ErrorSleep

Next == Step \/ KeyboardInterrupt

Spec == Init /\ [][Next]_vars

\* The interpreter keeps running the single thread: a step that can be taken
\* is taken (every call has a timeout, every sleep ends).
LiveSpec == Spec /\ WF_vars(Step)

\* ------------------------------------- the collector and checker functions
\* The functions of MetricsCollector and HealthChecker that keep no state,
\* each called once on arguments and an environment drawn from bounded sets.

WebCheck ==
    HealthCheckConfig("web", "http", Some("http://web.lan/health"), None, None,
                      Some(200))
ApiCheck ==
    HealthCheckConfig("api", "http", Some("http://api.lan/"), None, None,
                      Some(204))
\* expected_status: null in the document.
AnyStatusCheck ==
    HealthCheckConfig("any", "http", Some("http://any.lan/"), None, None, None)
\* Checks without their target field.
NoUrlCheck == HealthCheckConfig("nourl", "http", None, None, None, Some(200))
NoHostCheck == HealthCheckConfig("nohost", "tcp", None, None, Some(22), Some(200))
NasCheck == HealthCheckConfig("nas", "tcp", None, Some("nas.lan"), Some(445), Some(200))

Checks ==
    { ProcCheck, DbCheck, NasCheck, WebCheck, ApiCheck, AnyStatusCheck,
      NoUrlCheck, NoHostCheck }
\* The lists check_all is called on: at most MaxChecks checks, among them one
\* of a type that is not probed and one whose probe always raises.
CheckLists ==
    UNION { [ 1..n -> { ProcCheck, DbCheck, WebCheck, NoUrlCheck } ] :
              n \in 0..MaxChecks }

Mounts == {"/", "/mnt/data", "/backup"}
\* The lists of at most MaxMounts mounts.
MountLists == UNION { [ 1..n -> Mounts ] : n \in 0..MaxMounts }

Calls ==
    UNION { { [ fn |-> "check_http", check |-> check, outcome |-> outcome ] :
                outcome \in HttpProbeOutcomes(check) } :
              check \in { c \in Checks : c.type = "http" } }
      \cup
    UNION { { [ fn |-> "check_tcp", check |-> check, outcome |-> outcome ] :
                outcome \in TcpProbeOutcomes(check) } :
              check \in { c \in Checks : c.type = "tcp" } }
      \cup
    UNION { { [ fn |-> "check_all", health_checks |-> health_checks,
                outcomes |-> outcomes ] :
                outcomes \in ProbeOutcomeSeqs(health_checks) } :
              health_checks \in CheckLists }
      \cup
    UNION { { [ fn |-> "collect_disk_metrics", disk_mounts |-> disk_mounts,
                usage |-> usage ] :
                usage \in DiskUsageSeqs(disk_mounts) } :
              disk_mounts \in MountLists }
      \cup
    UNION { { [ fn |-> "collect_docker_metrics",
                include_docker |-> include_docker, outcome |-> outcome ] :
                outcome \in DockerOutcomesOf(include_docker,
                    ContainerListsOf(ContainersWith(StatsReadings))) } :
              include_docker \in BOOLEAN }

\* The keys of the requests and of the api_keys table.
AdminKey == << "k", "1" >>
OldKey == << "k", "2" >>
\* A row of the api_keys table.
ApiKey(name, key_hash, revoked, last_used_at) ==
    [ name |-> name, key_hash |-> key_hash, revoked |-> revoked,
      last_used_at |-> last_used_at ]
\* The tables: the admin key, in use or revoked, used before or not, and an
\* old key that is revoked.
ApiKeyTables ==
    { [ id \in {1, 2} |->
          IF id = 1
          THEN ApiKey("Admin Key", hash_api_key(AdminKey), revoked,
                      last_used_at)
          ELSE ApiKey("Old Key", hash_api_key(OldKey), "true", None) ] :
        revoked \in {"false", "true"}, last_used_at \in {None, Some(1)} }
\* The Authorization headers of the requests: none, empty, a bare key, another
\* scheme, and Bearer followed by nothing, by the admin key, the old key, a
\* key that is not stored, and texts around the admin key that hold
\* "Bearer " themselves.
Authorizations ==
    { None, Some(<< >>), Some(AdminKey),
      Some(<< "B", "a", "s", "i", "c", " " >> \o AdminKey),
      Some(Bearer(<< >>)), Some(Bearer(AdminKey)), Some(Bearer(OldKey)),
      Some(Bearer(<< "k", "3" >>)), Some(Bearer(Bearer(AdminKey))),
      Some(Bearer(AdminKey \o Bearer(<< >>))) }
VerifyCalls ==
    [ fn : {"verify_api_key"}, authorization : Authorizations,
      api_keys : ApiKeyTables, now : {2, 3} ]

CallInit ==
    /\ call \in Calls \cup VerifyCalls
    /\ result = None
    /\ document = None
    /\ NoBackend
    /\ InitProcess

\* The call returns `value`.
Returns(value) ==
    /\ result = None
    /\ result' = [ value |-> value ]
    /\ UNCHANGED << document, backendVars, call, pc, config, session, collectorVars, clock,
                    snapshot, metrics, cycle, metricsCycle, postVars,
                    failedBefore, logged, interrupted, exitStatus, sampleVars >>

CallCheckHttp ==
    /\ call.fn = "check_http"
    /\ Returns(check_http(call.check, call.outcome))

CallCheckTcp ==
    /\ call.fn = "check_tcp"
    /\ Returns(check_tcp(call.check, call.outcome))

CallCheckAll ==
    /\ call.fn = "check_all"
    /\ Returns(check_all(call.health_checks, call.outcomes))

CallCollectDiskMetrics ==
    /\ call.fn = "collect_disk_metrics"
    /\ Returns(collect_disk_metrics(call.disk_mounts, call.usage))

CallCollectDockerMetrics ==
    /\ call.fn = "collect_docker_metrics"
    /\ Returns(collect_docker_metrics(call.include_docker, call.outcome))

CallVerifyApiKey ==
    /\ call.fn = "verify_api_key"
    /\ Returns(verify_api_key(call.authorization, call.api_keys, call.now))

CallNext ==
    \/ CallVerifyApiKey
    \/ CallCheckHttp
    \/ CallCheckTcp
    \/ CallCheckAll
    \/ CallCollectDiskMetrics
    \/ CallCollectDockerMetrics

CallSpec == CallInit /\ [][CallNext]_vars

\* ------------------------------------------- the agent on other documents
\* The same process, started with documents that differ from one base
\* document in one respect: what is wrong with the file, the interval, the
\* api_key and the environment, the health checks, the collection options.

BaseDocument ==
    Document("none", Some(Placeholder), KeySet, Some(10), Some(FALSE), None,
             << >>)

\* api_key values: placeholders (of the variable K, of a variable X that is
\* never set, of the empty name), strings that only begin or only end like
\* one, a plain key, the empty string; None when the key is absent.
ApiKeys ==
    { Some(Placeholder), Some(<< "$", "{", "X", "}" >>),
      Some(<< "$", "{", "}" >>), Some(<< "$", "{", "K" >>),
      Some(<< "K", "}" >>), Some(<< "$" >>), Some(<< "k", "1" >>),
      Some(<< >>), None }

IntervalVariants ==
    { Some(0), Some(4), Some(5), Some(3600), Some(3601), None }

HealthCheckVariants ==
    { << ProcCheck >>, << ProcCheck, ProcCheck >>, << ProcCheck, NasCheck >>,
      << WebCheck >> }

ConfigVariants ==
    { [ BaseDocument EXCEPT !.defect = defect ] : defect \in ConfigDefects }
      \cup { [ BaseDocument EXCEPT !.interval_seconds = interval_seconds ] :
                interval_seconds \in IntervalVariants }
      \cup { [ BaseDocument EXCEPT !.api_key = api_key, !.environ = environ ] :
                api_key \in ApiKeys, environ \in {KeySet, NothingSet} }
      \cup { [ BaseDocument EXCEPT !.health_checks = health_checks ] :
                health_checks \in HealthCheckVariants }
      \cup { [ BaseDocument EXCEPT !.include_docker = None,
                                   !.interval_seconds = None,
                                   !.disk_mounts = Some(<< "/", "/backup" >>) ] }

VariantInit ==
    /\ document \in ConfigVariants
    /\ call = None
    /\ result = None
    /\ NoBackend
    /\ InitProcess

VariantSpec == VariantInit /\ [][Next]_vars

\* ------------------------------------------------ the backend: resolve_alert
\* POST /alerts/{alert_id}/resolve served for a few concurrent requests, each
\* with a database session of its own.  A handler is suspended at its awaits
\* (db.execute, db.commit, db.refresh); the steps of different requests
\* interleave there.

\* A row of the alerts table, as far as resolve_alert reads and writes it.
Alert(resolved_at) == [ resolved_at |-> resolved_at ]

\* The alerts stored when the requests arrive: alert a1, not resolved or
\* resolved at time 0, and alert a2, resolved at time 0.
AlertTables ==
    { [ id \in {"a1", "a2"} |->
          IF id = "a1" THEN Alert(resolved_at) ELSE Alert(Some(0)) ] :
        resolved_at \in {None, Some(0)} }
\* The ids asked for: a stored alert or an id that is not stored.
RequestedIds == {"a1", "a9"}

\* A request that has just arrived.
Request(alert_id) ==
    [ alert_id |-> alert_id, pc |-> "execute", alert |-> None,
      response |-> None ]

AlertInit ==
    /\ document = None
    /\ call = None
    /\ result = None
    /\ InitProcess
    /\ alerts \in AlertTables
    /\ requests \in [ 1..MaxRequests -> { Request(id) : id \in RequestedIds } ]
    /\ utc = 1

\* What the steps of resolve_alert leave alone.
agentVars ==
    << document, callVars, pc, config, session, collectorVars, clock, snapshot,
       metrics, cycle, metricsCycle, postVars, failedBefore, logged,
       interrupted, exitStatus, sampleVars >>

\* result = await db.execute(select(Alert).where(Alert.id == alert_id));
\* alert = result.scalar_one_or_none(): the row as it is stored now.
ResolveExecute(r) ==
    /\ requests[r].pc = "execute"
    /\ LET alert_id == requests[r].alert_id
           alert == IF alert_id \in DOMAIN alerts THEN alerts[alert_id]
                    ELSE None
       IN  requests' = [ requests EXCEPT ![r].alert = alert,
                                         ![r].pc = "check" ]
    /\ UNCHANGED << alerts, utc, agentVars >>

\* The two tests of the handler and alert.resolved_at = datetime.utcnow(),
\* on the Alert object of the request's session.
ResolveCheck(r) ==
    /\ requests[r].pc = "check"
    /\ LET alert == requests[r].alert
       IN  IF alert = None
           THEN /\ requests' =
                     [ requests EXCEPT
                         ![r].response = HTTPException(404, "not found"),
                         ![r].pc = "done" ]
                /\ UNCHANGED utc
           ELSE IF alert.resolved_at # None
           THEN /\ requests' =
                     [ requests EXCEPT
                         ![r].response =
                             HTTPException(400, "Alert is already resolved"),
                         ![r].pc = "done" ]
                /\ UNCHANGED utc
           ELSE \E d \in 0..MaxStep :
                  /\ utc + d <= MaxTime
                  /\ utc' = utc + d
                  /\ requests' =
                       [ requests EXCEPT
                           ![r].alert = Alert(Some(utc + d)),
                           ![r].pc = "commit" ]
    /\ UNCHANGED << alerts, agentVars >>

\* await db.commit(): the session writes the attribute it changed to the row
\* of the alert (UPDATE alerts SET resolved_at = ... WHERE id = ...) and
\* commits.
ResolveCommit(r) ==
    /\ requests[r].pc = "commit"
    /\ alerts' = [ alerts EXCEPT ![requests[r].alert_id].resolved_at =
                                   requests[r].alert.resolved_at ]
    /\ requests' = [ requests EXCEPT ![r].pc = "refresh" ]
    /\ UNCHANGED << utc, agentVars >>

\* await db.refresh(alert); return alert: the row as stored now is the
\* response (status 200).
ResolveRefresh(r) ==
    /\ requests[r].pc = "refresh"
    /\ LET alert == alerts[requests[r].alert_id]
       IN  requests' = [ requests EXCEPT
                           ![r].alert = alert,
                           ![r].response = [ status_code |-> 200,
                                             alert |-> alert ],
                           ![r].pc = "done" ]
    /\ UNCHANGED << alerts, utc, agentVars >>

AlertNext ==
    \E r \in 1..MaxRequests :
        \/ ResolveExecute(r)
        \/ ResolveCheck(r)
        \/ ResolveCommit(r)
        \/ ResolveRefresh(r)

AlertSpec == AlertInit /\ [][AlertNext]_vars

TypeOK ==
    /\ pc \in TryBody \cup {"main", "errsleep", "exited"}
    /\ clock \in 0..MaxTime
    /\ cycle \in 0..MaxCycles
    /\ posts \in 0..MaxCycles

\* ------------------------------------------------------------------ claims

\* The positions of Agent.run: the try block and the except clause's sleep.
Running == TryBody \cup {"errsleep"}

\* The loop cannot go on within the bounds of the model.
LoopBound ==
    \/ cycle >= MaxCycles
    \/ config # None /\ clock + config.interval_seconds > MaxTime

\* send_metrics returned False in the current iteration.
SendFailed == wire # None /\ wire.returned = "False"

\* C1: when send_metrics fails in a cycle the agent does not terminate: unless
\* the operator interrupts it, the sleep ends and the next cycle runs
\* collect_all again and reaches a new POST (or the loop-level handler, when
\* that cycle's own collection raises).
C1_FailedSendNextCycle ==
    SendFailed ~>
        ( \/ interrupted
          \/ LoopBound
          \/ wire = None /\ pc \in {"send", "errsleep"} )

\* A POST was made and succeeded in the cycle after one whose POST failed.
C1_Witness ==
    /\ wire # None
    /\ wire.returned = "True"
    /\ failedBefore

\* C2: once run() has started, an error raised in collect, health-check or
\* transmit never ends the process: it is caught at the loop level, the agent
\* sleeps interval_seconds and starts another cycle; only an operator
\* interruption takes the process out of the loop.
C2_ErrorsNeverTerminate ==
    [][ /\ pc \in Running => (pc' \in Running \/ interrupted')
        /\ (pc \in TryBody /\ logged' # logged /\ logged' \in LoopErrorMessages)
             => pc' = "errsleep"
        /\ (pc = "errsleep" /\ pc' \in Running)
             => /\ pc' = "collect"
                /\ cycle' = cycle + 1
                /\ clock' = clock + config.interval_seconds ]_vars

\* A cycle began after the loop-level handler caught an error and slept.
C2_Witness ==
    /\ pc = "collect"
    /\ cycle >= 2
    /\ logged = "Error in agent loop: ZeroDivisionError"

\* C3: the process ends only with status 0 or 1, and an operator interruption
\* at any point of the loop (collection, health checks, transmission, either
\* sleep) ends it through "Agent stopped by user" with status 0.
C3_InterruptExitsCleanly ==
    cycle >= 1 =>
      /\ exitStatus \in {None, Some(0), Some(1)}
      /\ (pc = "exited" /\ interrupted)
           => (exitStatus = Some(0) /\ logged = "Agent stopped by user")

\* C4: cycles are serialized and ordered: collect_all completes before
\* check_all starts, check_all before send_metrics, and a sleep of
\* interval_seconds ends before the next cycle's collect_all starts; nothing of
\* one cycle is in progress while another runs.
C4_CycleOrder ==
    [][ pc' # pc =>
          /\ pc' = "disk_io" => pc = "collect"
          /\ pc' = "network" => pc = "disk_io"
          /\ pc' = "docker" => pc = "network"
          /\ pc' = "check" => pc = "docker" /\ metricsCycle' = cycle
          /\ pc' = "send" => pc = "check"
          /\ pc' = "sleep" => pc = "send"
          /\ pc' = "collect" =>
                \/ pc = "main"
                \/ /\ pc \in {"sleep", "errsleep"}
                   /\ cycle' = cycle + 1
                   /\ clock' = clock + config.interval_seconds
                   /\ snapshot' = None /\ metrics' = None /\ wire' = None
          /\ cycle' # cycle => pc' = "collect" ]_vars

\* The second cycle reached its transmission.
C4_Witness == pc = "send" /\ cycle = 2 /\ metricsCycle = 2

\* C5: no buffering or resend: a cycle issues at most one POST, its body is
\* the snapshot collected in that same cycle, and so the snapshot of a failed
\* transmission is never sent in a later cycle.
C5_NoResend ==
    /\ posts <= 1
    /\ wire # None =>
          /\ posts = 1
          /\ wire.cycle = cycle
          /\ wire.snapshotCycle = cycle
          /\ wire.body = metrics
          /\ wire.body.timestamp >= (cycle - 1) * config.interval_seconds

\* The POST of the second cycle, after the first cycle's POST failed.
C5_Witness ==
    /\ wire # None
    /\ wire.cycle = 2
    /\ failedBefore
    /\ wire.body.timestamp > 0

\* C6: send_metrics makes one POST attempt per call and returns True exactly
\* for a 2xx response; for any other status code, a timeout or a network
\* error it returns False, without raising and without retrying.
C6_SendTrueIff2xx ==
    (wire # None /\ wire.outcome.kind \in {"response", "Timeout", "ConnectionError"})
      => /\ posts = 1
         /\ wire.returned \in {"True", "False"}
         /\ wire.returned = "True"
               <=> ( /\ wire.outcome.kind = "response"
                     /\ wire.outcome.status >= 200
                     /\ wire.outcome.status <= 299 )

\* C7: in every cycle after the first network sample, bytes_sent_per_sec and
\* bytes_recv_per_sec are (counter2 - counter1) / (t2 - t1) truncated toward
\* zero, over the previous network sample (counter1, t1) and the current one.
C7_NetworkRate ==
    [][ (pc = "network" /\ pc' = "docker" /\ netSample # None
           /\ netSample'.t > netSample.t)
        => LET network == snapshot'.network
               dt == netSample'.t - netSample.t
           IN  /\ network.bytes_sent_per_sec =
                     TruncDiv(netSample'.io.bytes_sent - netSample.io.bytes_sent, dt)
               /\ network.bytes_recv_per_sec =
                     TruncDiv(netSample'.io.bytes_recv - netSample.io.bytes_recv, dt)
      ]_vars

\* C8: in every cycle after the first disk sample, read_bytes_per_sec and
\* write_bytes_per_sec are (counter2 - counter1) / (t2 - t1) truncated toward
\* zero, over the previous disk sample (counter1, t1) and the current one; a
\* negative rate (the counter went backwards) is reported as it is.
C8_DiskRate ==
    [][ (pc = "disk_io" /\ pc' = "network" /\ diskSample # None
           /\ diskSample'.t > diskSample.t)
        => LET disk_io == snapshot'.disk_io
               dt == diskSample'.t - diskSample.t
           IN  /\ disk_io.read_bytes_per_sec =
                     TruncDiv(diskSample'.io.read_bytes - diskSample.io.read_bytes, dt)
               /\ disk_io.write_bytes_per_sec =
                     TruncDiv(diskSample'.io.write_bytes - diskSample.io.write_bytes, dt)
      ]_vars

\* C9: no cross-class coupling: a network collection leaves the previous
\* sample the disk rate is computed from (last_disk_io and its timestamp
\* last_time) as it was, and a disk collection leaves the previous network
\* counters as they were.
C9_NoCrossClassCoupling ==
    [][ /\ (pc = "network" /\ pc' \in Running)
             => (last_disk_io' = last_disk_io /\ last_time' = last_time)
        /\ (pc = "disk_io" /\ pc' \in Running)
             => last_net_io' = last_net_io ]_vars

\* A sample of the class was taken in this step while a previous one was
\* stored: the call returned, or its rate computation raised.
RateCallMade(at, next, last) ==
    /\ pc = at
    /\ last # None /\ last_time # None
    /\ \/ pc' = next
       \/ pc' = "errsleep" /\ logged' = "Error in agent loop: ZeroDivisionError"

\* C10: after a rate call made with a previous sample present, the stored
\* previous sample of that class (counters and timestamp) is the current
\* sample, also when the delta is negative and when the computation fails.
C10_PreviousBecomesCurrent ==
    [][ /\ RateCallMade("disk_io", "network", last_disk_io)
             => /\ last_disk_io' = diskSample'.io
                /\ last_time' = Some(diskSample'.t)
        /\ RateCallMade("network", "docker", last_net_io)
             => /\ last_net_io' = netSample'.io
                /\ last_time' = Some(netSample'.t) ]_vars

\* C11: a rate call made with no previous sample of its class stores the
\* current sample as previous and returns rate fields equal to 0, while the
\* cumulative totals it returns are the raw current counter values.
C11_FirstSampleTotals ==
    [][ /\ (pc = "disk_io" /\ pc' = "network"
              /\ (last_disk_io = None \/ last_time = None))
             => LET disk_io == snapshot'.disk_io
                IN  /\ last_disk_io' = diskSample'.io
                    /\ last_time' = Some(diskSample'.t)
                    /\ disk_io.read_bytes_per_sec = 0
                    /\ disk_io.write_bytes_per_sec = 0
                    /\ disk_io.read_bytes = diskSample'.io.read_bytes
                    /\ disk_io.write_bytes = diskSample'.io.write_bytes
        /\ (pc = "network" /\ pc' = "docker"
              /\ (last_net_io = None \/ last_time = None))
             => LET network == snapshot'.network
                IN  /\ last_net_io' = netSample'.io
                    /\ last_time' = Some(netSample'.t)
                    /\ network.bytes_sent_per_sec = 0
                    /\ network.bytes_recv_per_sec = 0
                    /\ network.bytes_sent = netSample'.io.bytes_sent
                    /\ network.bytes_recv = netSample'.io.bytes_recv ]_vars

\* The steps of collect_all.
CollectSteps == {"collect", "disk_io", "network", "docker"}

\* C12: a failure while collecting one metric category never prevents the
\* other categories from being collected: unless the operator interrupts it,
\* collect_all goes on to the next category and returns its snapshot to run().
C12_CategoryFailureIsolated ==
    [][ (pc \in CollectSteps /\ pc' # pc /\ ~interrupted')
          => /\ pc' \in CollectSteps \cup {"check"}
             /\ pc' = "check" => metrics' # None ]_vars

\* C13: the transmitted snapshot contains a health_checks field if and only
\* if at least one health check is configured, whatever the types of the
\* configured checks are.
C13_HealthChecksFieldIffConfigured ==
    wire # None =>
        ("health_checks" \in DOMAIN wire.body <=> config.health_checks # << >>)

\* The function called on its own has returned.
Called(fn) == call # None /\ call.fn = fn /\ result # None

\* The checks of a list that have a probe.
IsProbe(check) == check.type \in {"http", "tcp"}

\* C14: check_all returns exactly one result for each check whose type is http
\* or tcp and none for a check of another type, in the order of the checks:
\* result i carries the name and type of the i-th http/tcp check.
C14_OneResultPerProbeInOrder ==
    Called("check_all") =>
        LET probes == SelectSeq(call.health_checks, IsProbe)
        IN  /\ Len(result.value) = Len(probes)
            /\ \A i \in 1..Len(probes) :
                 /\ result.value[i].name = probes[i].name
                 /\ result.value[i].type = probes[i].type

\* check_all passed over a check that is not probed and returned the results
\* of two probes of different names.
C14_Witness ==
    /\ Called("check_all")
    /\ call.health_checks = << WebCheck, ProcCheck, DbCheck >>
    /\ Len(result.value) = 2
    /\ result.value[2].name = "db"

\* The probe met an error: an exception of the GET or of the socket call, or
\* an errno returned by connect_ex.
ProbeFailed(outcome) ==
    /\ outcome.kind # "response"
    /\ outcome.kind = "connect_ex" => outcome.result # 0

\* The result reports the failure of a probe: unhealthy, with a message, and
\* no exception in place of the result.
ReportsFailure(r) ==
    /\ {"name", "type", "healthy", "message"} \subseteq DOMAIN r
    /\ r.healthy = FALSE

\* The position in the results of check_all of the probe of health_checks[j].
ResultIndex(health_checks, j) == Len(SelectSeq(SubSeq(health_checks, 1, j), IsProbe))

\* C15: a probe never surfaces an error as an exception: whatever the probe
\* meets (timeout, name not resolved, connection refused, target field
\* missing), check_http and check_tcp return a result with healthy false and a
\* message, the result of a failed GET has no status_code, and in check_all
\* the failure of one probe leaves the results of the other probes in place.
C15_ProbeErrorsBecomeResults ==
    /\ (Called("check_http") /\ ProbeFailed(call.outcome))
          => /\ ReportsFailure(result.value)
             /\ "status_code" \notin DOMAIN result.value
    /\ (Called("check_tcp") /\ ProbeFailed(call.outcome))
          => ReportsFailure(result.value)
    /\ Called("check_all")
          => \A j \in 1..Len(call.health_checks) :
               IsProbe(call.health_checks[j]) =>
                 LET i == ResultIndex(call.health_checks, j)
                 IN  /\ i <= Len(result.value)
                     /\ "name" \in DOMAIN result.value[i]
                     /\ result.value[i].name = call.health_checks[j].name
                     /\ ProbeFailed(call.outcomes[j])
                          => ReportsFailure(result.value[i])

\* check_all reported the probe that raised, and after it the probe of the
\* next check, which succeeded.
C15_Witness ==
    /\ Called("check_all")
    /\ call.health_checks = << NoUrlCheck, DbCheck >>
    /\ call.outcomes[1].kind = "MissingSchema"
    /\ result.value[1].healthy = FALSE
    /\ result.value[2].healthy = TRUE

\* C16: the healthy flag is exact: check_http reports healthy exactly when a
\* response was received whose status code equals the check's
\* expected_status, and otherwise, for a response, a message naming the
\* expected and the actual code; check_tcp reports healthy exactly when the
\* connection succeeded.
C16_HealthyIsExact ==
    /\ Called("check_http")
          => /\ result.value.healthy
                  <=> ( /\ call.outcome.kind = "response"
                        /\ call.check.expected_status
                             = Some(call.outcome.status_code) )
             /\ (call.outcome.kind = "response" /\ ~result.value.healthy)
                  => result.value.message.args
                       = << call.check.expected_status,
                            Some(call.outcome.status_code) >>
    /\ Called("check_tcp")
          => ( result.value.healthy
                 <=> ( /\ call.outcome.kind = "connect_ex"
                       /\ call.outcome.result = 0 ) )

\* A response with a success status that is not the expected one was
\* reported unhealthy, with both codes in the message.
C16_Witness ==
    /\ Called("check_http")
    /\ call.check = ApiCheck
    /\ call.outcome.kind = "response"
    /\ call.outcome.status_code = 200
    /\ ~result.value.healthy
    /\ result.value.message.args = << Some(204), Some(200) >>

\* The number of the first j mounts whose usage query succeeded.
Queried(usage, j) == Cardinality({ k \in 1..j : usage[k].kind = "usage" })

\* C17: collect_disk_metrics returns exactly the configured mounts whose
\* usage query succeeded, in configured order, each with the usage read for
\* it: a mount whose query raises is left out and changes no other entry, and
\* the call returns.
C17_DisksAreTheQueriedMounts ==
    Called("collect_disk_metrics") =>
        LET disk_mounts == call.disk_mounts
            usage == call.usage
            disks == result.value
        IN  /\ Len(disks) = Queried(usage, Len(disk_mounts))
            /\ \A j \in 1..Len(disk_mounts) :
                 usage[j].kind = "usage" =>
                   /\ Queried(usage, j) <= Len(disks)
                   /\ disks[Queried(usage, j)] =
                        [ mount |-> disk_mounts[j],
                          total |-> usage[j].total,
                          used |-> usage[j].used,
                          free |-> usage[j].free,
                          percent |-> usage[j].percent ]

\* The query of the second of three mounts raised: the first and the third
\* are returned.
C17_Witness ==
    /\ Called("collect_disk_metrics")
    /\ call.disk_mounts = << "/", "/backup", "/mnt/data" >>
    /\ call.usage[2].kind = "FileNotFoundError"
    /\ Len(result.value) = 2
    /\ result.value[1].mount = "/"
    /\ result.value[2].mount = "/mnt/data"

\* Reading the container does not raise.
Readable(container) == ~container.raises

\* C18: collect_docker_metrics never raises: a container whose stats cannot
\* be read is left out and the other containers are returned in the order of
\* the listing (a container that is not running with its static fields only);
\* when the docker library is missing, the daemon unreachable or the listing
\* fails, or include_docker is false, the list returned is empty.
C18_DockerFailuresAreContained ==
    Called("collect_docker_metrics") =>
        IF call.include_docker /\ call.outcome.kind = "listing"
        THEN LET read == SelectSeq(call.outcome.containers, Readable)
             IN  /\ Len(result.value) = Len(read)
                 /\ \A i \in 1..Len(read) :
                      /\ result.value[i].name = read[i].name
                      /\ result.value[i].status = read[i].status
                      /\ "memory_usage" \in DOMAIN result.value[i]
                           <=> read[i].status = "running"
        ELSE result.value = << >>

\* The stats of the first of two listed containers could not be read: the
\* second one is returned.
C18_Witness ==
    /\ Called("collect_docker_metrics")
    /\ call.outcome.kind = "listing"
    /\ Len(call.outcome.containers) = 2
    /\ call.outcome.containers[1].raises
    /\ Len(result.value) = 1
    /\ result.value[1].name = call.outcome.containers[2].name

\* The process has left main() without being interrupted there.
Loaded == pc # "main" /\ (cycle = 0 => ~interrupted)

\* The document is valid but for its interval: the file is there and well
\* formed, the required fields are present.
OtherwiseValid(doc) == doc.defect = "none" /\ doc.api_key # None

\* The interval of the document: 30 when the key is absent.
IntervalOf(doc) ==
    IF doc.interval_seconds = None THEN 30 ELSE doc.interval_seconds[1]

\* C19: load_config accepts an otherwise valid configuration if and only if
\* 5 <= interval_seconds <= 3600 (30 when absent); after any configuration
\* failure (file missing, document malformed, required field missing,
\* interval out of range) the process has exited with status 1 before the
\* loop started: nothing was collected, checked or posted.
C19_ConfigAcceptedIffIntervalInRange ==
    Loaded =>
        /\ OtherwiseValid(document) =>
             ( cycle >= 1
                 <=> (IntervalOf(document) >= 5 /\ IntervalOf(document) <= 3600) )
        /\ ~OtherwiseValid(document) => cycle = 0
        /\ cycle = 0 =>
             /\ pc = "exited"
             /\ exitStatus = Some(1)
             /\ posts = 0
             /\ wire = None /\ metrics = None /\ snapshot = None
             /\ diskSample = None /\ netSample = None
             /\ last_disk_io = None /\ last_net_io = None

\* The agent started with interval_seconds 3601 has exited with status 1.
C19_Witness ==
    /\ document.interval_seconds = Some(3601)
    /\ OtherwiseValid(document)
    /\ pc = "exited"
    /\ exitStatus = Some(1)
    /\ ~interrupted

\* The api_key is a reference ${NAME} to an environment variable.
IsReference(api_key) ==
    /\ Len(api_key) >= 3
    /\ api_key[1] = "$"
    /\ api_key[2] = "{"
    /\ api_key[Len(api_key)] = "}"

\* The key the document stands for: the value of NAME for a reference ${NAME}
\* (the empty string when NAME is not set), the api_key itself otherwise.
KeyOf(doc) ==
    LET api_key == doc.api_key[1]
        NAME == SubSeq(api_key, 3, Len(api_key) - 1)
    IN  IF IsReference(api_key)
        THEN IF NAME \in DOMAIN doc.environ THEN doc.environ[NAME] ELSE << >>
        ELSE api_key

\* C20: load_config replaces an api_key of the form ${NAME} by the value of
\* the environment variable NAME, by the empty string when NAME is not set,
\* and keeps any other api_key as it is; a variable that is not set never makes
\* load_config fail; every POST of the run carries the resulting key as its
\* bearer token.
C20_ApiKeySubstitution ==
    /\ config # None => config.api_key = KeyOf(document)
    /\ ( /\ Loaded
         /\ OtherwiseValid(document)
         /\ IntervalOf(document) >= 5 /\ IntervalOf(document) <= 3600 )
          => cycle >= 1
    /\ wire # None =>
          wire.Authorization
            = << "B", "e", "a", "r", "e", "r", " " >> \o KeyOf(document)

\* The second POST of an agent whose api_key refers to a variable that is not
\* set: its bearer token is empty.
C20_Witness ==
    /\ wire # None
    /\ cycle = 2
    /\ document.api_key = Some(<< "$", "{", "K", "}" >>)
    /\ document.environ = NothingSet
    /\ wire.Authorization = << "B", "e", "a", "r", "e", "r", " " >>

\* ---------------------------------------------------------------- C21
\* The deltas and the limit the percentages of a container are computed from.
CpuDelta(container) ==
    container.stats.total_usage - container.stats.pre_total_usage
SystemDelta(container) ==
    container.stats.system_cpu_usage - container.stats.pre_system_cpu_usage
MemLimit(container) ==
    IF container.stats.memory_limit = None THEN 1
    ELSE container.stats.memory_limit[1]
\* value, a number of hundredths, is exactly num / den * 100.
ExactPercent(value, num, den) == value * den = num * 100 * 100
\* value, a number of hundredths, is num / den * 100 rounded to two decimals.
RoundedPercent(value, num, den) ==
    LET error == value * den - num * 100 * 100
    IN  2 * error <= den /\ 2 * (0 - error) <= den
\* The running containers whose entry is in the list returned, with Holds
\* applied to each container and its entry.
RunningEntries(Holds(_, _)) ==
    Called("collect_docker_metrics")
      /\ call.include_docker /\ call.outcome.kind = "listing" =>
        LET read == SelectSeq(call.outcome.containers, Readable)
        IN  /\ Len(result.value) = Len(read)
            /\ \A i \in 1..Len(read) :
                 read[i].status = "running" =>
                     /\ "cpu_percent" \in DOMAIN result.value[i]
                     /\ "memory_percent" \in DOMAIN result.value[i]
                     /\ Holds(read[i], result.value[i])
ExactPercents(container, entry) ==
    /\ IF SystemDelta(container) > 0
       THEN ExactPercent(entry.cpu_percent, CpuDelta(container),
                         SystemDelta(container))
       ELSE entry.cpu_percent = 0
    /\ IF MemLimit(container) > 0
       THEN ExactPercent(entry.memory_percent, container.stats.memory_usage,
                         MemLimit(container))
       ELSE entry.memory_percent = 0
RoundedPercents(container, entry) ==
    /\ IF SystemDelta(container) > 0
       THEN RoundedPercent(entry.cpu_percent, CpuDelta(container),
                           SystemDelta(container))
       ELSE entry.cpu_percent = 0
    /\ IF MemLimit(container) > 0
       THEN RoundedPercent(entry.memory_percent,
                           container.stats.memory_usage, MemLimit(container))
       ELSE entry.memory_percent = 0

\* C21 as stated: the entry of every running container whose stats were read
\* reports cpu_percent = (cpu_delta / system_delta) * 100 when system_delta
\* is positive and 0 otherwise, and memory_percent = (usage / limit) * 100
\* when the limit is positive and 0 otherwise; no reading makes the division
\* fail, so the entry is always there.
C21_PercentsAreTheQuotients == RunningEntries(ExactPercents)

\* C21 amended: the percentages reported are those quotients rounded to two
\* decimals (0 when system_delta or the limit is not positive), and no
\* reading makes the division fail.
C21_PercentsAreTheRoundedQuotients == RunningEntries(RoundedPercents)

\* cpu_delta 200 over system_delta 1000 is reported as 20.0, a container
\* whose system counter went back as 0, and one with a limit of zero as 0.
C21_Witness ==
    /\ Called("collect_docker_metrics")
    /\ call.outcome.kind = "listing"
    /\ Len(result.value) = 2
    /\ Len(call.outcome.containers) = 2
    /\ call.outcome.containers[1].stats # None
    /\ call.outcome.containers[2].stats # None
    /\ CpuDelta(call.outcome.containers[1]) = 200
    /\ SystemDelta(call.outcome.containers[1]) = 1000
    /\ result.value[1].cpu_percent = 2000
    /\ result.value[1].memory_percent = 5000
    /\ SystemDelta(call.outcome.containers[2]) < 0
    /\ result.value[2].cpu_percent = 0
    /\ result.value[2].memory_percent = 0

\* ---------------------------------------------------------------- C24
\* The positions of collect_all and check_all in the try block.
Collecting == {"collect", "disk_io", "network", "docker", "check"}
\* The loop-level handler caught an exception of collect_all.
CollectRaised ==
    /\ pc = "errsleep"
    /\ logged \in { "Error in agent loop: psutil.Error",
                     "Error in agent loop: ZeroDivisionError" }
\* The body has every top-level field and every category of metrics.
Complete(body) ==
    /\ {"timestamp", "system", "metrics", "containers"} \subseteq DOMAIN body
    /\ DOMAIN body.metrics = {"cpu", "memory", "disks", "disk_io", "network"}

\* C24: the agent never transmits a partial snapshot: the body of every POST
\* has timestamp, system, the five categories of metrics and containers and
\* was collected in the cycle of the POST; no POST is made while collect_all
\* and check_all are still running, nor in a cycle where collect_all raised.
C24_NoPartialSnapshot ==
    /\ wire # None =>
          /\ Complete(wire.body)
          /\ wire.snapshotCycle = wire.cycle
    /\ (pc \in Collecting \/ CollectRaised) => (posts = 0 /\ wire = None)

\* The POST of the first cycle was made; in the second cycle the disk I/O
\* rate raised inside collect_all and no POST was made.
C24_Witness ==
    /\ cycle = 2
    /\ failedBefore
    /\ pc = "errsleep"
    /\ logged = "Error in agent loop: ZeroDivisionError"
    /\ posts = 0
    /\ wire = None

\* ---------------------------------------------------------------- C22
\* The requests on alert id that were answered with status_code.
Answered(id, status_code) ==
    { r \in 1..MaxRequests :
        /\ requests[r].alert_id = id
        /\ requests[r].response # None
        /\ requests[r].response.status_code = status_code }
\* The requests on alert id, and those of them that are finished.
RequestsOn(id) == { r \in 1..MaxRequests : requests[r].alert_id = id }
FinishedOn(id) == { r \in RequestsOn(id) : requests[r].pc = "done" }
\* Request r is answered in this step.
AnsweredNow(r) == requests[r].response = None /\ requests'[r].response # None

\* An answer of 400 or 404 is the right one and the alert is left as it was:
\* 404 goes to an id that is not stored, 400 to an alert that is resolved.
FailuresAreRight ==
    \A r \in 1..MaxRequests :
        AnsweredNow(r) =>
            LET id == requests[r].alert_id
                status_code == requests'[r].response.status_code
            IN  /\ id \notin DOMAIN alerts <=> status_code = 404
                /\ status_code = 400 =>
                      alerts[id].resolved_at # None /\ alerts' = alerts
                /\ status_code = 200 =>
                      requests'[r].response.alert.resolved_at # None
\* resolved_at, once set, keeps its value.
ResolvedAtIsKept ==
    \A id \in DOMAIN alerts :
        alerts[id].resolved_at # None => alerts'[id] = alerts[id]
\* Of the requests on one alert at most one succeeds, and once all of them
\* are answered exactly one has, unless the alert was resolved before them.
OneSucceeds ==
    \A id \in DOMAIN alerts :
        /\ Cardinality(Answered(id, 200)) <= 1
        /\ (RequestsOn(id) # {} /\ FinishedOn(id) = RequestsOn(id)) =>
              \/ Cardinality(Answered(id, 200)) = 1
              \/ Answered(id, 400) = RequestsOn(id)

\* C22: an alert is resolved at most once: resolve_alert answers 400 for an
\* alert that is already resolved and leaves it unchanged, and 404 for an id
\* that is not stored; in every interleaving of the requests on one alert
\* exactly one succeeds, and resolved_at, once set, never changes.
C22_ResolvedAtMostOnce ==
    [][ FailuresAreRight /\ ResolvedAtIsKept /\ OneSucceeds' ]_vars

\* ---------------------------------------------------------------- C23
\* The header is 'Bearer <key>', and the <key> of such a header.
IsBearer(authorization) ==
    authorization # None /\ startswith(authorization[1], Bearer(<< >>))
BearerKey(authorization) ==
    SubSeq(authorization[1], Len(Bearer(<< >>)) + 1, Len(authorization[1]))
\* The rows of the table whose key is the header's <key> and is not revoked.
RowsOf(authorization, api_keys) ==
    { k \in DOMAIN api_keys :
        /\ api_keys[k].key_hash = hash_api_key(BearerKey(authorization))
        /\ api_keys[k].revoked = "false" }

\* C23: verify_api_key returns an ApiKey only when the Authorization header
\* is 'Bearer <key>' and <key> hashes to a stored key that is not revoked,
\* and then only last_used_at of that key changes; for a missing or malformed
\* header, an unknown key or a revoked key it fails with 401 and the table
\* is unchanged.
C23_OnlyStoredKeysAreVerified ==
    Called("verify_api_key") =>
        LET valid == IF IsBearer(call.authorization)
                     THEN RowsOf(call.authorization, call.api_keys)
                     ELSE {}
        IN  IF "returned" \in DOMAIN result.value
            THEN /\ valid # {}
                 /\ \E k \in valid :
                      /\ result.value.returned = result.value.api_keys[k]
                      /\ result.value.api_keys =
                            [ call.api_keys EXCEPT
                                ![k].last_used_at = Some(call.now) ]
            ELSE /\ valid = {}
                 /\ "status_code" \in DOMAIN result.value.raised
                 /\ result.value.raised.status_code = 401
                 /\ result.value.api_keys = call.api_keys

=============================================================================
